---- MODULE Spec2Model ----
(***************************************************************************)
(* Model of the authentication core of the contacts REST backend:          *)
(* registration, e-mail confirmation, login, refresh, the cached identity   *)
(* lookup (get_current_user) and the admin gate.                            *)
(*                                                                          *)
(* Time is counted in whole seconds, the resolution of the iat/exp claims.  *)
(* A JWT is modelled by its claim set plus the kind of signature it bears:  *)
(* two tokens are the same string iff the records are equal.                *)
(***************************************************************************)
EXTENDS Integers, Sequences, FiniteSets, TLC

VARIABLES users, cache, now, ticks, issued, last, contacts, reqs, seen

vars == <<users, cache, now, ticks, issued, last, contacts, reqs, seen>>

----------------------------------------------------------------------------
(* Bounds of the model *)

MaxUsers == 2
MaxTicks == 1
MaxTokens == 4
MaxContacts == 2
MaxRequests == 2

----------------------------------------------------------------------------
(* Program constants *)

JWT_EXPIRATION_SECONDS == 3600
REFRESH_TOKEN_EXPIRATION_SECONDS == 604800
EMAIL_TOKEN_SECONDS == 604800
CACHE_TTL == 3600

----------------------------------------------------------------------------
(* Input domains *)

Usernames == {"alice", "bob"}
Passwords == {"p1", "p2"}

\* registration bodies (UserCreate): two that can coexist and two that
\* collide with them on the email or on the username
RegisterForms ==
    {[username |-> "alice", email |-> "a@x", password |-> "p1", role |-> "admin"],
     [username |-> "bob", email |-> "b@x", password |-> "p1", role |-> "user"],
     [username |-> "bob", email |-> "a@x", password |-> "p1", role |-> "user"],
     [username |-> "alice", email |-> "b@x", password |-> "p1", role |-> "admin"]}

\* the salts bcrypt may draw
Salts == {1}

\* how far the clock moves between two requests: up to the expiry instant of
\* an access token (and of a cache entry), just past it, just past the expiry
\* of a refresh token
TickSteps == {JWT_EXPIRATION_SECONDS, JWT_EXPIRATION_SECONDS + 1,
              REFRESH_TOKEN_EXPIRATION_SECONDS + 1}

----------------------------------------------------------------------------
(* Values *)

NoHash == [alg |-> "none", salt |-> 0, plain |-> ""]

\* Python None in a token-typed position (User.refresh_token is nullable)
NullToken == [sub |-> "", iat |-> 0, exp |-> 0, token_type |-> "", sig |-> "null"]

\* Python None in a Contact-typed position; a NULL description is ""
NoDate == [year |-> 0, month |-> 0, day |-> 0]

NoContact == [id |-> 0, first_name |-> "", last_name |-> "", email |-> "",
              phone |-> "", birthday |-> NoDate, description |-> "", user_id |-> 0]

\* Python None in a User-typed position
NoUser == [id |-> 0, email |-> "", username |-> "", hashed_password |-> NoHash,
           created_at |-> 0, avatar |-> "", confirmed |-> FALSE, role |-> "",
           refresh_token |-> NullToken]

----------------------------------------------------------------------------
(* Credential hasher *)

get_password_hash(password, salt) ==
    [alg |-> "bcrypt", salt |-> salt, plain |-> password]

\* mutant: any password verifies
verify_password_any(plain_password, hashed_password) ==
    hashed_password.alg = "bcrypt"

verify_password(plain_password, hashed_password) ==
    /\ hashed_password.alg = "bcrypt"
    /\ hashed_password.plain = plain_password

----------------------------------------------------------------------------
(* Token codec.  jwt.encode signs the claim set with settings.JWT_SECRET;   *)
(* datetimes are written as whole epoch seconds, so the token is a function *)
(* of its claims.  A claim that is not in the payload has the value "".     *)

\* mutant: the token is tagged with a kind
create_email_token_tagged(sub, t) ==
    [sub |-> sub, iat |-> t, exp |-> t + EMAIL_TOKEN_SECONDS,
     token_type |-> "email-verify", sig |-> "ok"]

\* iat is read from the clock after exp was computed and can be a second
\* later than t; no code reads it
create_email_token(sub, t) ==
    [sub |-> sub, iat |-> t, exp |-> t + EMAIL_TOKEN_SECONDS,
     token_type |-> "", sig |-> "ok"]

create_access_token(sub, t) ==
    [sub |-> sub, iat |-> t, exp |-> t + JWT_EXPIRATION_SECONDS,
     token_type |-> "access", sig |-> "ok"]

create_refresh_token(sub, t) ==
    [sub |-> sub, iat |-> t, exp |-> t + REFRESH_TOKEN_EXPIRATION_SECONDS,
     token_type |-> "refresh", sig |-> "ok"]

\* the sub of a payload that has no key "sub"
NoSub == "<no sub>"

\* payload["sub"] raises KeyError, which is not a JWTError
sub_missing(payload) == payload.sub = NoSub

\* mutant: a token is refused from the second of its expiry on
jwt_decode_ok_strict(token, t) ==
    /\ token.sig = "ok"
    /\ t < token.exp

\* mutant: the expiry is not checked
jwt_decode_ok_no_exp(token, t) == token.sig = "ok"

\* jwt.decode: TRUE iff it returns the payload, FALSE iff it raises JWTError
\* (bad signature, not a JWT, or exp earlier than the current second).
jwt_decode_ok(token, t) ==
    /\ token.sig = "ok"
    /\ ~(token.exp < t)

----------------------------------------------------------------------------
(* User store (UserRepository over the users table; id is the row number) *)

get_user_by_email(us, email) ==
    IF \E i \in DOMAIN us : us[i].email = email
    THEN us[CHOOSE i \in DOMAIN us : us[i].email = email]
    ELSE NoUser

get_user_by_username(us, username) ==
    IF \E i \in DOMAIN us : us[i].username = username
    THEN us[CHOOSE i \in DOMAIN us : us[i].username = username]
    ELSE NoUser

\* mutant: a new row is confirmed at once
create_user_confirmed(us, email, username, hashed_password, role, avatar, t) ==
    Append(us, [id |-> Len(us) + 1, email |-> email, username |-> username,
                hashed_password |-> hashed_password, created_at |-> t,
                avatar |-> avatar,
                confirmed |-> TRUE, role |-> role,
                refresh_token |-> NullToken])

create_user(us, email, username, hashed_password, role, avatar, t) ==
    Append(us, [id |-> Len(us) + 1, email |-> email, username |-> username,
                hashed_password |-> hashed_password, created_at |-> t,
                avatar |-> avatar,
                confirmed |-> FALSE, role |-> role,
                refresh_token |-> NullToken])

\* mutant: every row is confirmed
repo_confirm_email_all(us, email) ==
    [i \in DOMAIN us |-> [us[i] EXCEPT !.confirmed = TRUE]]

repo_confirm_email(us, email) ==
    [i \in DOMAIN us |->
        IF us[i].email = email THEN [us[i] EXCEPT !.confirmed = TRUE] ELSE us[i]]

update_avatar_url(us, email, url) ==
    [i \in DOMAIN us |->
        IF us[i].email = email THEN [us[i] EXCEPT !.avatar = url] ELSE us[i]]

\* mutant: the new hash is not written
update_hashed_password_lost(us, email, hashed_password) == us

\* mutant: the refresh token is dropped with the old hash
update_hashed_password_logout(us, email, hashed_password) ==
    [i \in DOMAIN us |->
        IF us[i].email = email
        THEN [us[i] EXCEPT !.hashed_password = hashed_password,
                           !.refresh_token = NullToken]
        ELSE us[i]]

update_hashed_password(us, email, hashed_password) ==
    [i \in DOMAIN us |->
        IF us[i].email = email
        THEN [us[i] EXCEPT !.hashed_password = hashed_password] ELSE us[i]]

\* mutant: the new token is not written
update_refresh_token_lost(us, email, refresh_token) == us

update_refresh_token(us, email, refresh_token) ==
    [i \in DOMAIN us |->
        IF us[i].email = email
        THEN [us[i] EXCEPT !.refresh_token = refresh_token] ELSE us[i]]

----------------------------------------------------------------------------
(* Session cache (redis): key -> value with an optional expiry time *)

NoExpiry == -1

NoEntry == [present |-> FALSE, value |-> [py_object |-> "", state |-> NoUser],
            expire_at |-> NoExpiry]

redis_get(c, key) == IF key \in DOMAIN c THEN c[key] ELSE NoEntry

\* SET replaces the value and drops any expiry the key had
redis_set(c, key, value) ==
    [c EXCEPT ![key] = [present |-> TRUE, value |-> value, expire_at |-> NoExpiry]]

redis_expire(c, key, ttl, t) ==
    IF c[key].present THEN [c EXCEPT ![key].expire_at = t + ttl] ELSE c

\* keys whose expiry time has come are gone
redis_purge(c, t) ==
    [k \in DOMAIN c |->
        IF c[k].present /\ c[k].expire_at # NoExpiry /\ c[k].expire_at <= t
        THEN NoEntry ELSE c[k]]

serialize_user(user) == [py_object |-> "src.database.models.User", state |-> user]

\* mutant: the decoded object is not the object that was encoded
deserialize_user_plain_role(user_json) == [user_json.state EXCEPT !.role = "user"]

deserialize_user(user_json) == user_json.state

\* a string that is not the jsonpickle document of a User: jsonpickle.decode
\* raises on it
NotJson == [py_object |-> "", state |-> NoUser]

\* jsonpickle.decode raises (the exception is caught nowhere)
deserialize_raises(user_json) == user_json.py_object # "src.database.models.User"

----------------------------------------------------------------------------
(* What a request handler answers.  Fields a handler does not set keep the  *)
(* values below.  lookups and puts count the User Store queries and the     *)
(* cache writes made by the identity resolution of the request.             *)

Response(op, status, detail) ==
    [op |-> op, status |-> status, detail |-> detail,
     access_token |-> NullToken, refresh_token |-> NullToken,
     user |-> NoUser, lookups |-> 0, puts |-> 0,
     username |-> "", password |-> "", token |-> NullToken, at |-> 0,
     contact |-> NoContact, contacts |-> <<>>, contact_id |-> 0]

credentials_exception(op) == Response(op, 401, "Could not validate credentials")

\* an exception no handler catches: the framework answers 500
unhandled_exception(op) == Response(op, 500, "Internal Server Error")

----------------------------------------------------------------------------
(* Identity resolution *)

\* mutant: the kind of the token is not checked
wrong_token_type_never(payload) == FALSE

\* payload.get("token_type") != "refresh"
wrong_token_type(payload) == payload.token_type # "refresh"

\* mutant: the presented token is not compared with the stored one
refresh_token_differs_never(user, refresh_token) == FALSE

\* mutant: only a user without a stored token is refused
refresh_token_differs_null(user, refresh_token) == user.refresh_token = NullToken

\* user.refresh_token != refresh_token
refresh_token_differs(user, refresh_token) == user.refresh_token # refresh_token

verify_refresh_token(refresh_token, us, t) ==
    IF ~jwt_decode_ok(refresh_token, t)
    THEN credentials_exception("new_token")
    ELSE IF sub_missing(refresh_token)
    THEN unhandled_exception("new_token")
    ELSE IF wrong_token_type(refresh_token)
    THEN credentials_exception("new_token")
    ELSE LET user == get_user_by_username(us, refresh_token.sub) IN
         IF user = NoUser
         THEN \* user.refresh_token on None: AttributeError
              [unhandled_exception("new_token") EXCEPT !.lookups = 1]
         ELSE IF refresh_token_differs(user, refresh_token)
         THEN [credentials_exception("new_token") EXCEPT !.lookups = 1]
         ELSE [Response("new_token", 200, "") EXCEPT !.user = user, !.lookups = 1]

\* mutant: the cache entry is ignored
cache_miss_always(user_json) == TRUE

\* user_json is None
cache_miss(user_json) == ~user_json.present

\* mutant: only a token of kind access is resolved
get_current_user_access_only(op, token, us, c, t) ==
    IF ~jwt_decode_ok(token, t) \/ token.token_type # "access"
    THEN [resp |-> credentials_exception(op), cache |-> c]
    ELSE LET username == token.sub
             user_json == redis_get(c, username)
             user == get_user_by_username(us, username)
         IN  IF ~user_json.present /\ user = NoUser
             THEN [resp |-> [credentials_exception(op) EXCEPT !.lookups = 1],
                   cache |-> c]
             ELSE IF ~user_json.present
             THEN [resp |-> [Response(op, 200, "") EXCEPT
                                !.user = user, !.lookups = 1, !.puts = 1],
                   cache |-> redis_expire(
                                redis_set(c, username, serialize_user(user)),
                                username, CACHE_TTL, t)]
             ELSE [resp |-> [Response(op, 200, "") EXCEPT
                                !.user = deserialize_user(user_json.value)],
                   cache |-> c]

\* the answer and the cache the call leaves behind
get_current_user(op, token, us, c, t) ==
    IF ~jwt_decode_ok(token, t)
    THEN [resp |-> credentials_exception(op), cache |-> c]
    ELSE IF sub_missing(token)
    THEN [resp |-> unhandled_exception(op), cache |-> c]
    ELSE LET username == token.sub
             user_json == redis_get(c, username)
         IN  IF cache_miss(user_json)
             THEN LET user == get_user_by_username(us, username) IN
                  IF user = NoUser
                  THEN [resp |-> [credentials_exception(op) EXCEPT !.lookups = 1],
                        cache |-> c]
                  ELSE [resp |-> [Response(op, 200, "") EXCEPT
                                     !.user = user, !.lookups = 1, !.puts = 1],
                        cache |-> redis_expire(
                                     redis_set(c, username, serialize_user(user)),
                                     username, CACHE_TTL, t)]
             ELSE IF deserialize_raises(user_json.value)
             THEN [resp |-> unhandled_exception(op), cache |-> c]
             ELSE [resp |-> [Response(op, 200, "") EXCEPT
                                !.user = deserialize_user(user_json.value)],
                   cache |-> c]

\* mutant: the role is not checked
get_current_admin_user_open(op, current) == current

get_current_admin_user(op, current) ==
    IF current.resp.status # 200
    THEN current
    ELSE IF current.resp.user.role # "admin"
    THEN [current EXCEPT
             !.resp = [Response(op, 403, "User does not have enough permissions")
                          EXCEPT !.lookups = current.resp.lookups,
                                 !.puts = current.resp.puts]]
    ELSE current

----------------------------------------------------------------------------
(* Request handlers: the answer, and the user table the request leaves *)

\* mutant: the username is not looked up
register_user_any_username(us, username, email, password, role, salt, t) ==
    IF get_user_by_email(us, email) # NoUser
    THEN [resp |-> Response("register", 409, "User with this email already exists"),
          users |-> us]
    ELSE LET created == create_user(us, email, username,
                                    get_password_hash(password, salt), role, "gravatar", t)
         IN [resp |-> [Response("register", 201, "") EXCEPT
                           !.user = created[Len(created)]],
             users |-> created]

register_user(us, username, email, password, role, salt, t) ==
    IF get_user_by_email(us, email) # NoUser
    THEN [resp |-> Response("register", 409, "User with this email already exists"),
          users |-> us]
    ELSE IF get_user_by_username(us, username) # NoUser
    THEN [resp |-> Response("register", 409, "User with this username already exists"),
          users |-> us]
    ELSE LET created == create_user(us, email, username,
                                    get_password_hash(password, salt), role, "gravatar", t)
         IN [resp |-> [Response("register", 201, "") EXCEPT
                           !.user = created[Len(created)]],
             users |-> created]

confirm_email(us, token, t) ==
    IF ~jwt_decode_ok(token, t)
    THEN [resp |-> Response("confirm_email", 422, "Invalid token for email verification"),
          users |-> us]
    ELSE LET user == get_user_by_email(us, token.sub) IN
         IF user = NoUser
         THEN [resp |-> Response("confirm_email", 400, "Verification error"),
               users |-> us]
         ELSE IF user.confirmed
         THEN [resp |-> Response("confirm_email", 400, "Email is already confirmed"),
               users |-> us]
         ELSE [resp |-> Response("confirm_email", 200, "Email was confirmed"),
               users |-> repo_confirm_email(us, token.sub)]

\* mutant: the confirmed flag is not checked
login_user_unconfirmed(us, username, password, t) ==
    LET user == get_user_by_username(us, username) IN
    IF user = NoUser \/ ~verify_password(password, user.hashed_password)
    THEN [resp |-> Response("login", 401, "Invalid username or password"), users |-> us]
    ELSE LET access_token == create_access_token(user.username, t)
             refresh_token == create_refresh_token(user.username, t)
         IN [resp |-> [Response("login", 200, "") EXCEPT
                          !.access_token = access_token,
                          !.refresh_token = refresh_token],
             users |-> update_refresh_token(us, user.email, refresh_token)]

login_user(us, username, password, t) ==
    LET user == get_user_by_username(us, username) IN
    IF user = NoUser \/ ~verify_password(password, user.hashed_password)
    THEN [resp |-> Response("login", 401, "Invalid username or password"), users |-> us]
    ELSE IF ~user.confirmed
    THEN [resp |-> Response("login", 401, "Email is not confirmed"), users |-> us]
    ELSE LET access_token == create_access_token(user.username, t)
             refresh_token == create_refresh_token(user.username, t)
         IN [resp |-> [Response("login", 200, "") EXCEPT
                          !.access_token = access_token,
                          !.refresh_token = refresh_token],
             users |-> update_refresh_token(us, user.email, refresh_token)]

\* mutant: every refresh answers with a refresh token made now
new_token_rotating(us, refresh_token, t) ==
    LET verified == verify_refresh_token(refresh_token, us, t) IN
    IF verified.status # 200
    THEN verified
    ELSE [verified EXCEPT
             !.access_token = create_access_token(verified.user.username, t),
             !.refresh_token = create_refresh_token(verified.user.username, t)]

new_token(us, refresh_token, t) ==
    LET verified == verify_refresh_token(refresh_token, us, t) IN
    IF verified.status # 200
    THEN verified
    ELSE IF verified.user = NoUser
    THEN Response("new_token", 401, "Invalid or expired refresh token")
    ELSE [verified EXCEPT
             !.access_token = create_access_token(verified.user.username, t),
             !.refresh_token = refresh_token]

upload_file(username) == "cloudinary"

update_avatar_user(us, current) ==
    IF current.resp.status # 200
    THEN [resp |-> current.resp, users |-> us]
    ELSE LET avatar_url == upload_file(current.resp.user.username)
             updated == update_avatar_url(us, current.resp.user.email, avatar_url)
         IN [resp |-> [current.resp EXCEPT
                          !.user = get_user_by_email(updated, current.resp.user.email)],
             users |-> updated]

\* the passwords generate_temp_password can return
generate_temp_password == {"t1", "t2"}

\* A 200 answer of the two handlers below has the body {"message": ...}; the
\* message is kept in the detail field.  password is the password mailed.
forget_password(us, email, generated_password, salt) ==
    LET user == get_user_by_email(us, email)
        message == Response("forget_password", 200,
            "If this user exists in our database, we have sent them an email with temporary password")
    IN  IF user # NoUser
        THEN IF ~user.confirmed
             THEN [resp |-> Response("forget_password", 401, "Email is not confirmed"),
                   users |-> us]
             ELSE [resp |-> message,
                   users |-> update_hashed_password(us, email,
                                 get_password_hash(generated_password, salt))]
        ELSE [resp |-> message, users |-> us]

\* mutant: a confirmed address is mailed again
request_email_again(us, email) ==
    Response("request_email", 200,
        "If this user exists in our database, we have sent them a confirmation email")

request_email(us, email) ==
    LET user == get_user_by_email(us, email) IN
    IF user # NoUser /\ user.confirmed
    THEN Response("request_email", 400, "Email is already confirmed")
    ELSE Response("request_email", 200,
             "If this user exists in our database, we have sent them a confirmation email")

\* mutant: the old password is not verified
update_user_password_unverified(us, current, old_password, new_password, salt) ==
    IF current.resp.status # 200
    THEN [resp |-> current.resp, users |-> us]
    ELSE [resp |-> current.resp,
          users |-> update_hashed_password(us, current.resp.user.email,
                        get_password_hash(new_password, salt))]

update_user_password(us, current, old_password, new_password, salt) ==
    IF current.resp.status # 200
    THEN [resp |-> current.resp, users |-> us]
    ELSE LET user == current.resp.user IN
         IF verify_password(old_password, user.hashed_password)
         THEN [resp |-> current.resp,
               users |-> update_hashed_password(us, user.email,
                             get_password_hash(new_password, salt))]
         ELSE [resp |-> current.resp, users |-> us]

----------------------------------------------------------------------------
(* Contacts table (ContactRepository).  Rows are kept in insertion order,   *)
(* the order in which a SELECT without ORDER BY returns them.               *)

\* str.lower for the letters that occur in the inputs
lower_char(c) ==
    CASE c = "N" -> "n"
      [] c = "G" -> "g"
      [] c = "S" -> "s"
      [] c = "X" -> "x"
      [] OTHER -> c

RECURSIVE lower(_)
lower(str) ==
    IF Len(str) = 0 THEN ""
    ELSE lower_char(SubSeq(str, 1, 1)) \o lower(SubSeq(str, 2, Len(str)))

\* column ILIKE '%pattern%'
ilike(column, pattern) ==
    \E i \in 1..(Len(column) - Len(pattern) + 1) :
        lower(SubSeq(column, i, i + Len(pattern) - 1)) = lower(pattern)

\* OFFSET skip LIMIT limit
offset_limit(rows, skip, limit) ==
    SubSeq(rows, skip + 1, IF Len(rows) < skip + limit THEN Len(rows) ELSE skip + limit)

get_contacts(cs, skip, limit, user, first_name, last_name, email) ==
    LET selected(c) ==
            /\ c.user_id = user.id
            /\ first_name # "" => ilike(c.first_name, first_name)
            /\ last_name # "" => ilike(c.last_name, last_name)
            /\ email # "" => ilike(c.email, email)
    IN  offset_limit(SelectSeq(cs, selected), skip, limit)

is_leap(year) == (year % 4 = 0 /\ year % 100 # 0) \/ year % 400 = 0

days_in_month(year, month) ==
    IF month = 2 THEN (IF is_leap(year) THEN 29 ELSE 28)
    ELSE IF month \in {4, 6, 9, 11} THEN 30 ELSE 31

\* date + timedelta(days=1)
next_day(date) ==
    IF date.day < days_in_month(date.year, date.month)
    THEN [date EXCEPT !.day = date.day + 1]
    ELSE IF date.month < 12
    THEN [date EXCEPT !.month = date.month + 1, !.day = 1]
    ELSE [year |-> date.year + 1, month |-> 1, day |-> 1]

\* the first day of the month after that of date
next_month(date) ==
    IF date.month < 12
    THEN [date EXCEPT !.month = date.month + 1, !.day = 1]
    ELSE [year |-> date.year + 1, month |-> 1, day |-> 1]

\* date + timedelta(days=days): day by day, and a whole month at a time from
\* the first day of a month
RECURSIVE add_days(_, _)
add_days(date, days) ==
    IF days = 0 THEN date
    ELSE IF date.day = 1 /\ days >= days_in_month(date.year, date.month)
    THEN add_days(next_month(date), days - days_in_month(date.year, date.month))
    ELSE add_days(next_day(date), days - 1)

\* datetime.now().date() at epoch second t, the process running on UTC
today(t) == add_days([year |-> 1970, month |-> 1, day |-> 1], t \div 86400)

\* mutant: the window has eight days
get_contacts_with_upcoming_birthdays_8_days(cs, user, t) ==
    LET selected(c) ==
            /\ c.user_id = user.id
            /\ \E i \in 0..7 :
                  LET target_date == add_days(today(t), i) IN
                  /\ c.birthday.month = target_date.month
                  /\ c.birthday.day = target_date.day
    IN  SelectSeq(cs, selected)

get_contacts_with_upcoming_birthdays(cs, user, t) ==
    LET selected(c) ==
            /\ c.user_id = user.id
            /\ \E i \in 0..6 :
                  LET target_date == add_days(today(t), i) IN
                  /\ c.birthday.month = target_date.month
                  /\ c.birthday.day = target_date.day
    IN  SelectSeq(cs, selected)

get_contact_by_id(cs, contact_id, user) ==
    IF \E i \in DOMAIN cs : cs[i].id = contact_id /\ cs[i].user_id = user.id
    THEN cs[CHOOSE i \in DOMAIN cs : cs[i].id = contact_id /\ cs[i].user_id = user.id]
    ELSE NoContact

\* body is the set of fields the request gave; the database gives the id
repo_create_contact(cs, body, user, id) ==
    Append(cs, [f \in DOMAIN NoContact |->
                   IF f = "id" THEN id
                   ELSE IF f = "user_id" THEN user.id
                   ELSE IF f \in DOMAIN body THEN body[f]
                   ELSE NoContact[f]])

\* mutant: the owner is not looked at
repo_update_contact_any_owner(cs, contact_id, body, user) ==
    [i \in DOMAIN cs |->
        IF cs[i].id = contact_id
        THEN [f \in DOMAIN cs[i] |-> IF f \in DOMAIN body THEN body[f] ELSE cs[i][f]]
        ELSE cs[i]]

\* mutant: the fields the body does not set are reset
repo_update_contact_replacing(cs, contact_id, body, user) ==
    [i \in DOMAIN cs |->
        IF cs[i].id = contact_id /\ cs[i].user_id = user.id
        THEN [f \in DOMAIN cs[i] |->
                 IF f \in DOMAIN body THEN body[f]
                 ELSE IF f \in {"id", "user_id"} THEN cs[i][f]
                 ELSE NoContact[f]]
        ELSE cs[i]]

repo_update_contact(cs, contact_id, body, user) ==
    LET contact == get_contact_by_id(cs, contact_id, user) IN
    IF contact # NoContact
    THEN [i \in DOMAIN cs |->
            IF cs[i] = contact
            THEN [f \in DOMAIN contact |->
                     IF f \in DOMAIN body THEN body[f] ELSE contact[f]]
            ELSE cs[i]]
    ELSE cs

\* mutant: nothing is deleted
repo_remove_contact_kept(cs, contact_id, user) == cs

repo_remove_contact(cs, contact_id, user) ==
    LET contact == get_contact_by_id(cs, contact_id, user)
        kept(c) == c # contact
    IN  IF contact # NoContact THEN SelectSeq(cs, kept) ELSE cs

----------------------------------------------------------------------------
(* Contact handlers: the answer, and the contacts table the request leaves. *)
(* current is what get_current_user gave for the bearer token.              *)

contact_not_found(current) ==
    [Response(current.resp.op, 404, "Contact not found") EXCEPT
        !.lookups = current.resp.lookups, !.puts = current.resp.puts]

read_contacts(cs, current, skip, limit, first_name, last_name, email) ==
    IF current.resp.status # 200
    THEN current.resp
    ELSE [current.resp EXCEPT
             !.contacts = get_contacts(cs, skip, limit, current.resp.user,
                                       first_name, last_name, email)]

read_contacts_with_upcoming_birthdays(cs, current, t) ==
    IF current.resp.status # 200
    THEN current.resp
    ELSE [current.resp EXCEPT
             !.contacts = get_contacts_with_upcoming_birthdays(cs, current.resp.user, t)]

read_contact(cs, current, contact_id) ==
    IF current.resp.status # 200
    THEN current.resp
    ELSE LET contact == get_contact_by_id(cs, contact_id, current.resp.user) IN
         IF contact = NoContact
         THEN contact_not_found(current)
         ELSE [current.resp EXCEPT !.contact = contact]

create_contact(cs, current, body, id) ==
    IF current.resp.status # 200
    THEN [resp |-> current.resp, contacts |-> cs]
    ELSE LET created == repo_create_contact(cs, body, current.resp.user, id) IN
         [resp |-> [current.resp EXCEPT !.status = 201,
                                        !.contact = created[Len(created)]],
          contacts |-> created]

update_contact(cs, current, contact_id, body) ==
    IF current.resp.status # 200
    THEN [resp |-> current.resp, contacts |-> cs]
    ELSE LET updated == repo_update_contact(cs, contact_id, body, current.resp.user)
             contact == get_contact_by_id(updated, contact_id, current.resp.user)
         IN  IF contact = NoContact
             THEN [resp |-> contact_not_found(current), contacts |-> updated]
             ELSE [resp |-> [current.resp EXCEPT !.contact = contact],
                   contacts |-> updated]

remove_contact(cs, current, contact_id) ==
    IF current.resp.status # 200
    THEN [resp |-> current.resp, contacts |-> cs]
    ELSE LET contact == get_contact_by_id(cs, contact_id, current.resp.user) IN
         IF contact = NoContact
         THEN [resp |-> contact_not_found(current), contacts |-> cs]
         ELSE [resp |-> [current.resp EXCEPT !.contact = contact],
               contacts |-> repo_remove_contact(cs, contact_id, current.resp.user)]

----------------------------------------------------------------------------
(* Requests in flight.  A handler runs as a coroutine: between two of its   *)
(* awaits, and between two commands it sends to the database or to redis,   *)
(* other requests (of this process or of another worker) take their steps.  *)
(* reqs[i] holds the local variables of the handler in slot i and the place *)
(* it has reached; seen is the set of all rows the users table has held.    *)

RequestIds == 1..MaxRequests

Idle == [op |-> "", pc |-> "idle", token |-> NullToken, username |-> "",
         password |-> "", user |-> NoUser, user_json |-> NoEntry,
         access_token |-> NullToken, refresh_token |-> NullToken]

----------------------------------------------------------------------------
(* Tokens a client can present: those the service has handed out, and       *)
(* strings that do not come from it.                                        *)

Garbage == [sub |-> "", iat |-> 0, exp |-> 0, token_type |-> "", sig |-> "malformed"]

BadSignature(token) == [token EXCEPT !.sig = "bad"]

\* signed with the service's secret, for a name that is in no row
GhostRefresh == create_refresh_token("ghost", 0)
GhostAccess == create_access_token("ghost", 0)

ForeignTokens ==
    {Garbage, GhostRefresh, GhostAccess,
     BadSignature(create_access_token("alice", 0))}

\* the verification mail of a registration carries the token built by send_email
MailedTokens == {create_email_token(users[i].email, users[i].created_at) : i \in DOMAIN users}

Presentable == issued \cup MailedTokens \cup ForeignTokens

----------------------------------------------------------------------------
(* Actions *)

Init ==
    /\ users = <<>>
    /\ cache = [k \in Usernames |-> NoEntry]
    /\ now = 0
    /\ ticks = 0
    /\ issued = {}
    /\ last = Response("init", 0, "")
    /\ contacts = <<>>
    /\ reqs = [i \in RequestIds |-> Idle]
    /\ seen = {}

RegisterWith(body, salt) ==
    LET r == register_user(users, body.username, body.email, body.password,
                           body.role, salt, now)
    IN
    /\ Len(users) < MaxUsers \/ r.resp.status # 201
    /\ users' = r.users
    /\ last' = [r.resp EXCEPT !.username = body.username,
                              !.password = body.password, !.at = now]
    /\ UNCHANGED <<cache, now, ticks, issued, contacts, reqs, seen>>

Register == \E body \in RegisterForms, salt \in Salts : RegisterWith(body, salt)

ConfirmEmailWith(token) ==
    LET r == confirm_email(users, token, now) IN
    /\ users' = r.users
    /\ last' = [r.resp EXCEPT !.token = token, !.at = now]
    /\ UNCHANGED <<cache, now, ticks, issued, contacts, reqs, seen>>

ConfirmEmail == \E token \in Presentable : ConfirmEmailWith(token)

LoginWith(username, password) ==
    LET r == login_user(users, username, password, now)
        out == IF r.resp.status = 200
               THEN {r.resp.access_token, r.resp.refresh_token} ELSE {}
    IN  /\ Cardinality(issued \cup out) <= MaxTokens
        /\ users' = r.users
        /\ issued' = issued \cup out
        /\ last' = [r.resp EXCEPT !.username = username, !.password = password,
                                  !.at = now]
        /\ UNCHANGED <<cache, now, ticks, contacts, reqs, seen>>

Login ==
    \E username \in Usernames \cup {"ghost"}, password \in Passwords :
        LoginWith(username, password)

NewTokenWith(token) ==
    LET r == new_token(users, token, now)
        out == IF r.status = 200 THEN {r.access_token} ELSE {}
    IN  /\ Cardinality(issued \cup out) <= MaxTokens
        /\ issued' = issued \cup out
        /\ last' = [r EXCEPT !.token = token, !.at = now]
        /\ UNCHANGED <<users, cache, now, ticks, contacts, reqs, seen>>

NewToken == \E token \in Presentable : NewTokenWith(token)

MeWith(token) ==
    LET r == get_current_user("me", token, users, cache, now) IN
    /\ cache' = r.cache
    /\ last' = [r.resp EXCEPT !.token = token, !.at = now]
    /\ UNCHANGED <<users, now, ticks, issued, contacts, reqs, seen>>

Me == \E token \in Presentable : MeWith(token)

UpdateAvatarWith(token) ==
    LET current == get_current_admin_user("update_avatar",
                       get_current_user("update_avatar", token, users, cache, now))
        r == update_avatar_user(users, current)
    IN  /\ cache' = current.cache
        /\ users' = r.users
        /\ last' = [r.resp EXCEPT !.token = token, !.at = now]
        /\ UNCHANGED <<now, ticks, issued, contacts, reqs, seen>>

UpdateAvatar == \E token \in Presentable : UpdateAvatarWith(token)

Tick ==
    \E d \in TickSteps :
        /\ ticks < MaxTicks
        /\ ticks' = ticks + 1
        /\ now' = now + d
        /\ cache' = redis_purge(cache, now + d)
        /\ UNCHANGED <<users, issued, last, contacts, reqs, seen>>

Next ==
    \/ Register
    \/ ConfirmEmail
    \/ Login
    \/ NewToken
    \/ Me
    \/ UpdateAvatar
    \/ Tick

Spec == Init /\ [][Next]_vars

----------------------------------------------------------------------------
(* Account maintenance: password reset, repeated verification mail and      *)
(* password change, next to registration, confirmation, login and the       *)
(* identity lookup.  The clock stands still in this specification.          *)

\* addresses a client can name: those of the registration bodies and one that
\* is never registered
Addresses == {body.email : body \in RegisterForms} \cup {"nobody@x"}

\* last.password is the password mailed by send_reset_password_email, "" when
\* no mail is sent
ForgetPasswordWith(email, generated_password, salt) ==
    LET r == forget_password(users, email, generated_password, salt) IN
    /\ users' = r.users
    /\ last' = [r.resp EXCEPT
                   !.username = email,
                   !.password = IF r.users # users \/ (r.resp.status = 200 /\
                                      get_user_by_email(users, email) # NoUser)
                                THEN generated_password ELSE "",
                   !.at = now]
    /\ UNCHANGED <<cache, now, ticks, issued, contacts, reqs, seen>>

ForgetPassword ==
    \E email \in Addresses, generated_password \in generate_temp_password,
       salt \in Salts :
        ForgetPasswordWith(email, generated_password, salt)

\* last.token is the token mailed by send_email, NullToken when no mail is sent
RequestEmailWith(email) ==
    LET r == request_email(users, email) IN
    /\ last' = [r EXCEPT
                   !.username = email,
                   !.token = IF r.status = 200 /\ get_user_by_email(users, email) # NoUser
                             THEN create_email_token(email, now) ELSE NullToken,
                   !.at = now]
    /\ UNCHANGED <<users, cache, now, ticks, issued, contacts, reqs, seen>>

RequestEmail == \E email \in Addresses : RequestEmailWith(email)

UpdatePasswordWith(token, old_password, new_password, salt) ==
    LET current == get_current_user("update_password", token, users, cache, now)
        r == update_user_password(users, current, old_password, new_password, salt)
    IN  /\ cache' = current.cache
        /\ users' = r.users
        /\ last' = [r.resp EXCEPT !.token = token, !.password = old_password,
                                  !.at = now]
        /\ UNCHANGED <<now, ticks, issued, contacts, reqs, seen>>

UpdatePassword ==
    \E token \in Presentable, old_password \in Passwords,
       new_password \in Passwords, salt \in Salts :
        UpdatePasswordWith(token, old_password, new_password, salt)

\* a login with any password a user can have in this specification
LoginAccount ==
    \E username \in Usernames \cup {"ghost"},
       password \in Passwords \cup generate_temp_password :
        LoginWith(username, password)

NextAccount ==
    \/ Register
    \/ ConfirmEmail
    \/ LoginAccount
    \/ Me
    \/ ForgetPassword
    \/ RequestEmail
    \/ UpdatePassword

SpecAccount == Init /\ [][NextAccount]_vars

----------------------------------------------------------------------------
(* The identity lookup over a cache that other clients of the redis         *)
(* database can write: a key named like a user can hold a string that is    *)
(* not a serialized User.                                                   *)

ForeignSet ==
    \E key \in Usernames :
        /\ cache' = redis_set(cache, key, NotJson)
        /\ UNCHANGED <<users, now, ticks, issued, last, contacts, reqs, seen>>

NextCache ==
    \/ Register
    \/ ConfirmEmail
    \/ Login
    \/ Me
    \/ ForeignSet

SpecCache == Init /\ [][NextCache]_vars

----------------------------------------------------------------------------
(* Every request that writes a row of the users table: registration,        *)
(* confirmation, login, refresh, password reset and password update.        *)

NextLifecycle ==
    \/ Register
    \/ ConfirmEmail
    \/ LoginAccount
    \/ NewToken
    \/ ForgetPassword
    \/ UpdatePassword

SpecLifecycle == Init /\ [][NextLifecycle]_vars

----------------------------------------------------------------------------
(* Tokens signed with the service's secret whose payload has no "sub",      *)
(* presented as bearer token and as refresh token.                          *)

UnnamedTokens ==
    {[create_access_token("", 0) EXCEPT !.sub = NoSub],
     [create_refresh_token("", 0) EXCEPT !.sub = NoSub]}

MeUnnamed == \E token \in Presentable \cup UnnamedTokens : MeWith(token)

NewTokenUnnamed == \E token \in Presentable \cup UnnamedTokens : NewTokenWith(token)

NextSubject ==
    \/ Register
    \/ ConfirmEmail
    \/ Login
    \/ MeUnnamed
    \/ NewTokenUnnamed

SpecSubject == Init /\ [][NextSubject]_vars

----------------------------------------------------------------------------
(* Contacts of the authenticated user, next to registration, confirmation   *)
(* and login.  The clock stands still in this specification.                *)

\* ContactModel bodies: description is not set
ContactBodies ==
    {[first_name |-> "Sam", last_name |-> "Ng", email |-> "sam@x", phone |-> "1",
      birthday |-> [year |-> 1990, month |-> 1, day |-> 7]],
     [first_name |-> "Ann", last_name |-> "Lee", email |-> "ann@y", phone |-> "1",
      birthday |-> [year |-> 1991, month |-> 1, day |-> 8]]}

\* ContactUpdate bodies: only the fields that are set
ContactUpdates == {[last_name |-> "new"]}

\* ids a request can name: those the table can use and one it never uses
ContactIds == 1..(MaxContacts + 1)

\* the id the database gives a new row is one no row has
FreeIds == (1..MaxContacts) \ {contacts[i].id : i \in DOMAIN contacts}

\* query strings of GET /contacts
ContactQueries ==
    {[skip |-> 0, limit |-> 100, first_name |-> "", last_name |-> "", email |-> ""],
     [skip |-> 1, limit |-> 1, first_name |-> "", last_name |-> "", email |-> ""],
     [skip |-> 0, limit |-> 100, first_name |-> "", last_name |-> "G", email |-> ""],
     [skip |-> 0, limit |-> 1, first_name |-> "a", last_name |-> "", email |-> "@X"]}

\* bearer tokens of the contact requests: the access tokens handed out and a
\* string that is no token
Bearers == {T \in issued : T.token_type = "access"} \cup {Garbage}

CreateContactWith(token, body, id) ==
    LET current == get_current_user("create_contact", token, users, cache, now)
        r == create_contact(contacts, current, body, id)
    IN  /\ cache' = current.cache
        /\ contacts' = r.contacts
        /\ last' = [r.resp EXCEPT !.token = token, !.at = now]
        /\ UNCHANGED <<users, now, ticks, issued, reqs, seen>>

CreateContact ==
    \E token \in Bearers, body \in ContactBodies, id \in FreeIds :
        CreateContactWith(token, body, id)

ReadContactsWith(token, skip, limit, first_name, last_name, email) ==
    LET current == get_current_user("read_contacts", token, users, cache, now)
        r == read_contacts(contacts, current, skip, limit, first_name, last_name, email)
    IN  /\ cache' = current.cache
        /\ last' = [r EXCEPT !.token = token, !.at = now]
        /\ UNCHANGED <<users, now, ticks, issued, contacts, reqs, seen>>

ReadContacts ==
    \E token \in Bearers, q \in ContactQueries :
        ReadContactsWith(token, q.skip, q.limit, q.first_name, q.last_name, q.email)

ReadBirthdaysWith(token) ==
    LET current == get_current_user("read_birthdays", token, users, cache, now)
        r == read_contacts_with_upcoming_birthdays(contacts, current, now)
    IN  /\ cache' = current.cache
        /\ last' = [r EXCEPT !.token = token, !.at = now]
        /\ UNCHANGED <<users, now, ticks, issued, contacts, reqs, seen>>

ReadBirthdays == \E token \in Bearers : ReadBirthdaysWith(token)

ReadContactWith(token, contact_id) ==
    LET current == get_current_user("read_contact", token, users, cache, now)
        r == read_contact(contacts, current, contact_id)
    IN  /\ cache' = current.cache
        /\ last' = [r EXCEPT !.token = token, !.at = now,
                             !.contact_id = contact_id]
        /\ UNCHANGED <<users, now, ticks, issued, contacts, reqs, seen>>

ReadContact ==
    \E token \in Bearers, contact_id \in ContactIds :
        ReadContactWith(token, contact_id)

UpdateContactWith(token, contact_id, body) ==
    LET current == get_current_user("update_contact", token, users, cache, now)
        r == update_contact(contacts, current, contact_id, body)
    IN  /\ cache' = current.cache
        /\ contacts' = r.contacts
        /\ last' = [r.resp EXCEPT !.token = token, !.at = now,
                             !.contact_id = contact_id]
        /\ UNCHANGED <<users, now, ticks, issued, reqs, seen>>

UpdateContact ==
    \E token \in Bearers, contact_id \in ContactIds, body \in ContactUpdates :
        UpdateContactWith(token, contact_id, body)

RemoveContactWith(token, contact_id) ==
    LET current == get_current_user("remove_contact", token, users, cache, now)
        r == remove_contact(contacts, current, contact_id)
    IN  /\ cache' = current.cache
        /\ contacts' = r.contacts
        /\ last' = [r.resp EXCEPT !.token = token, !.at = now,
                             !.contact_id = contact_id]
        /\ UNCHANGED <<users, now, ticks, issued, reqs, seen>>

RemoveContact ==
    \E token \in Bearers, contact_id \in ContactIds :
        RemoveContactWith(token, contact_id)

NextContacts ==
    \/ Register
    \/ ConfirmEmail
    \/ Login
    \/ CreateContact
    \/ ReadContacts
    \/ ReadBirthdays
    \/ ReadContact
    \/ UpdateContact
    \/ RemoveContact

SpecContacts == Init /\ [][NextContacts]_vars

----------------------------------------------------------------------------
(* Tokens at the second of their expiry: the clock moves to the expiry of   *)
(* an access token or of a refresh or verification token made at 0, or one  *)
(* second past it.                                                          *)

ExpirySteps == {JWT_EXPIRATION_SECONDS, JWT_EXPIRATION_SECONDS + 1,
                REFRESH_TOKEN_EXPIRATION_SECONDS,
                REFRESH_TOKEN_EXPIRATION_SECONDS + 1}

TickToExpiry ==
    \E d \in ExpirySteps :
        /\ ticks < MaxTicks
        /\ ticks' = ticks + 1
        /\ now' = now + d
        /\ cache' = redis_purge(cache, now + d)
        /\ UNCHANGED <<users, issued, last, contacts, reqs, seen>>

NextExpiry ==
    \/ Register
    \/ ConfirmEmail
    \/ Login
    \/ NewToken
    \/ Me
    \/ TickToExpiry

SpecExpiry == Init /\ [][NextExpiry]_vars

----------------------------------------------------------------------------
(* Concurrent requests: login, refresh and the identity lookup taken one    *)
(* database or redis command at a time, with registration and confirmation  *)
(* as single steps.  A request can stop at any place (the worker dies, or   *)
(* the command it sends fails).                                             *)

\* bearer and refresh tokens of the concurrent requests
RaceTokens == issued \cup {Garbage}

Answer(i, resp) ==
    /\ last' = [resp EXCEPT !.token = reqs[i].token, !.username = reqs[i].username,
                            !.password = reqs[i].password, !.at = now]
    /\ reqs' = [reqs EXCEPT ![i] = Idle]

\* the account the concurrent requests are about
RaceForms == {[username |-> "alice", email |-> "a@x", password |-> "p1", role |-> "admin"]}

RaceRegister ==
    \E body \in RaceForms, salt \in Salts :
        LET r == register_user(users, body.username, body.email, body.password,
                               body.role, salt, now)
        IN
        /\ Len(users) < MaxUsers \/ r.resp.status # 201
        /\ users' = r.users
        /\ seen' = seen \cup {r.users[k] : k \in DOMAIN r.users}
        /\ last' = [r.resp EXCEPT !.username = body.username,
                                  !.password = body.password, !.at = now]
        /\ UNCHANGED <<cache, now, ticks, issued, contacts, reqs>>

RaceConfirmEmail ==
    \E token \in MailedTokens :
        LET r == confirm_email(users, token, now) IN
        /\ users' = r.users
        /\ seen' = seen \cup {r.users[k] : k \in DOMAIN r.users}
        /\ last' = [r.resp EXCEPT !.token = token, !.at = now]
        /\ UNCHANGED <<cache, now, ticks, issued, contacts, reqs>>

\* login_user up to the call of update_refresh_token: the row is read, the
\* password and the confirmed flag are tested, the tokens are made
LoginStart(i, username, password) ==
    LET user == get_user_by_username(users, username)
        r == login_user(users, username, password, now)
    IN  /\ reqs[i].pc = "idle"
        /\ IF r.resp.status # 200
           THEN /\ last' = [r.resp EXCEPT !.username = username,
                                           !.password = password, !.at = now]
                /\ reqs' = reqs
           ELSE /\ reqs' = [reqs EXCEPT ![i] =
                              [Idle EXCEPT !.op = "login", !.pc = "write",
                                           !.username = username,
                                           !.password = password, !.user = user,
                                           !.access_token = r.resp.access_token,
                                           !.refresh_token = r.resp.refresh_token]]
                /\ last' = last
        /\ UNCHANGED <<users, cache, now, ticks, issued, contacts, seen>>

\* update_refresh_token commits
LoginWrite(i) ==
    /\ reqs[i].op = "login" /\ reqs[i].pc = "write"
    /\ users' = update_refresh_token(users, reqs[i].user.email, reqs[i].refresh_token)
    /\ seen' = seen \cup {users'[k] : k \in DOMAIN users'}
    /\ reqs' = [reqs EXCEPT ![i].pc = "respond"]
    /\ UNCHANGED <<cache, now, ticks, issued, last, contacts>>

LoginRespond(i) ==
    /\ reqs[i].op = "login" /\ reqs[i].pc = "respond"
    /\ Cardinality(issued \cup {reqs[i].access_token, reqs[i].refresh_token}) <= MaxTokens
    /\ issued' = issued \cup {reqs[i].access_token, reqs[i].refresh_token}
    /\ Answer(i, [Response("login", 200, "") EXCEPT
                      !.access_token = reqs[i].access_token,
                      !.refresh_token = reqs[i].refresh_token])
    /\ UNCHANGED <<users, cache, now, ticks, contacts, seen>>

\* verify_refresh_token up to the query: the token is decoded and its kind
\* is tested
RefreshStart(i, token) ==
    /\ reqs[i].pc = "idle"
    /\ IF ~jwt_decode_ok(token, now)
       THEN /\ last' = [credentials_exception("new_token") EXCEPT
                           !.token = token, !.at = now]
            /\ reqs' = reqs
       ELSE IF sub_missing(token)
       THEN /\ last' = [unhandled_exception("new_token") EXCEPT
                           !.token = token, !.at = now]
            /\ reqs' = reqs
       ELSE IF wrong_token_type(token)
       THEN /\ last' = [credentials_exception("new_token") EXCEPT
                           !.token = token, !.at = now]
            /\ reqs' = reqs
       ELSE /\ reqs' = [reqs EXCEPT ![i] =
                          [Idle EXCEPT !.op = "new_token", !.pc = "read",
                                       !.token = token]]
            /\ last' = last
    /\ UNCHANGED <<users, cache, now, ticks, issued, contacts, seen>>

\* get_user_by_username returns
RefreshRead(i) ==
    /\ reqs[i].op = "new_token" /\ reqs[i].pc = "read"
    /\ reqs' = [reqs EXCEPT ![i].user = get_user_by_username(users, reqs[i].token.sub),
                            ![i].pc = "compare"]
    /\ UNCHANGED <<users, cache, now, ticks, issued, last, contacts, seen>>

\* user.refresh_token != refresh_token, on the row that was read
RefreshCompare(i) ==
    /\ reqs[i].op = "new_token" /\ reqs[i].pc = "compare"
    /\ IF reqs[i].user = NoUser
       THEN Answer(i, [unhandled_exception("new_token") EXCEPT !.lookups = 1])
       ELSE IF refresh_token_differs(reqs[i].user, reqs[i].token)
       THEN Answer(i, [credentials_exception("new_token") EXCEPT !.lookups = 1])
       ELSE /\ reqs' = [reqs EXCEPT ![i].pc = "respond"]
            /\ last' = last
    /\ UNCHANGED <<users, cache, now, ticks, issued, contacts, seen>>

\* new_token makes the access token and answers
RefreshRespond(i) ==
    LET access_token == create_access_token(reqs[i].user.username, now) IN
    /\ reqs[i].op = "new_token" /\ reqs[i].pc = "respond"
    /\ Cardinality(issued \cup {access_token}) <= MaxTokens
    /\ issued' = issued \cup {access_token}
    /\ Answer(i, [Response("new_token", 200, "") EXCEPT
                      !.user = reqs[i].user, !.lookups = 1,
                      !.access_token = access_token,
                      !.refresh_token = reqs[i].token])
    /\ UNCHANGED <<users, cache, now, ticks, contacts, seen>>

\* get_current_user up to r.get: the token is decoded
AuthStart(i, token) ==
    /\ reqs[i].pc = "idle"
    /\ IF ~jwt_decode_ok(token, now)
       THEN /\ last' = [credentials_exception("me") EXCEPT !.token = token, !.at = now]
            /\ reqs' = reqs
       ELSE IF sub_missing(token)
       THEN /\ last' = [unhandled_exception("me") EXCEPT !.token = token, !.at = now]
            /\ reqs' = reqs
       ELSE /\ reqs' = [reqs EXCEPT ![i] =
                          [Idle EXCEPT !.op = "me", !.pc = "get", !.token = token]]
            /\ last' = last
    /\ UNCHANGED <<users, cache, now, ticks, issued, contacts, seen>>

\* r.get(username)
AuthGet(i) ==
    LET user_json == redis_get(cache, reqs[i].token.sub) IN
    /\ reqs[i].op = "me" /\ reqs[i].pc = "get"
    /\ IF cache_miss(user_json)
       THEN /\ reqs' = [reqs EXCEPT ![i].pc = "lookup"]
            /\ last' = last
       ELSE IF deserialize_raises(user_json.value)
       THEN Answer(i, unhandled_exception("me"))
       ELSE Answer(i, [Response("me", 200, "") EXCEPT
                          !.user = deserialize_user(user_json.value)])
    /\ UNCHANGED <<users, cache, now, ticks, issued, contacts, seen>>

\* get_user_by_username returns
AuthLookup(i) ==
    LET user == get_user_by_username(users, reqs[i].token.sub) IN
    /\ reqs[i].op = "me" /\ reqs[i].pc = "lookup"
    /\ IF user = NoUser
       THEN Answer(i, [credentials_exception("me") EXCEPT !.lookups = 1])
       ELSE /\ reqs' = [reqs EXCEPT ![i].user = user, ![i].pc = "set"]
            /\ last' = last
    /\ UNCHANGED <<users, cache, now, ticks, issued, contacts, seen>>

\* r.set(str(user.username), serialize_user(user))
AuthSet(i) ==
    /\ reqs[i].op = "me" /\ reqs[i].pc = "set"
    /\ cache' = redis_set(cache, reqs[i].user.username, serialize_user(reqs[i].user))
    /\ reqs' = [reqs EXCEPT ![i].pc = "expire"]
    /\ UNCHANGED <<users, now, ticks, issued, last, contacts, seen>>

\* r.expire(str(user.username), 3600), and the answer
AuthExpire(i) ==
    /\ reqs[i].op = "me" /\ reqs[i].pc = "expire"
    /\ cache' = redis_expire(cache, reqs[i].user.username, CACHE_TTL, now)
    /\ Answer(i, [Response("me", 200, "") EXCEPT
                      !.user = reqs[i].user, !.lookups = 1, !.puts = 1])
    /\ UNCHANGED <<users, now, ticks, issued, contacts, seen>>

\* the request in slot i stops where it is
Stop(i) ==
    /\ reqs[i].pc # "idle"
    /\ reqs' = [reqs EXCEPT ![i] = Idle]
    /\ UNCHANGED <<users, cache, now, ticks, issued, last, contacts, seen>>

NextRace ==
    \/ RaceRegister
    \/ RaceConfirmEmail
    \/ \E i \in RequestIds, username \in Usernames, password \in Passwords :
          LoginStart(i, username, password)
    \/ \E i \in RequestIds : LoginWrite(i)
    \/ \E i \in RequestIds : LoginRespond(i)
    \/ \E i \in RequestIds, token \in RaceTokens : RefreshStart(i, token)
    \/ \E i \in RequestIds : RefreshRead(i)
    \/ \E i \in RequestIds : RefreshCompare(i)
    \/ \E i \in RequestIds : RefreshRespond(i)
    \/ \E i \in RequestIds, token \in RaceTokens : AuthStart(i, token)
    \/ \E i \in RequestIds : AuthGet(i)
    \/ \E i \in RequestIds : AuthLookup(i)
    \/ \E i \in RequestIds : AuthSet(i)
    \/ \E i \in RequestIds : AuthExpire(i)
    \/ \E i \in RequestIds : Stop(i)
    \/ Tick

SpecRace == Init /\ [][NextRace]_vars

----------------------------------------------------------------------------
(* Updates of a contact with bodies that set one field, two fields, and a   *)
(* date and the description.                                                *)

FieldUpdates ==
    {[last_name |-> "new"],
     [phone |-> "2", email |-> "new@x"],
     [birthday |-> [year |-> 2000, month |-> 2, day |-> 29], description |-> "d"]}

UpdateContactFields ==
    \E token \in Bearers, contact_id \in ContactIds, body \in FieldUpdates :
        UpdateContactWith(token, contact_id, body)

\* the two owners of contacts
OwnerForms ==
    {[username |-> "alice", email |-> "a@x", password |-> "p1", role |-> "admin"],
     [username |-> "bob", email |-> "b@x", password |-> "p1", role |-> "user"]}

RegisterOwner == \E body \in OwnerForms, salt \in Salts : RegisterWith(body, salt)

ConfirmOwner == \E token \in MailedTokens : ConfirmEmailWith(token)

LoginOwner == \E username \in Usernames : LoginWith(username, "p1")

NextFields ==
    \/ RegisterOwner
    \/ ConfirmOwner
    \/ LoginOwner
    \/ CreateContact
    \/ UpdateContactFields

SpecFields == Init /\ [][NextFields]_vars

----------------------------------------------------------------------------
(* The birthdays of the coming week, asked on days whose week runs into the *)
(* next month or the next year, in a common year and in a leap year.        *)

SecondsPerDay == 86400

\* contacts born on 1 January, on 1 March and on 29 February
BirthdayBodies ==
    {[first_name |-> "Sam", last_name |-> "Ng", email |-> "sam@x", phone |-> "1",
      birthday |-> [year |-> 2000, month |-> 1, day |-> 1]],
     [first_name |-> "Ann", last_name |-> "Lee", email |-> "ann@y", phone |-> "1",
      birthday |-> [year |-> 1999, month |-> 3, day |-> 1]],
     [first_name |-> "Leo", last_name |-> "Day", email |-> "leo@z", phone |-> "1",
      birthday |-> [year |-> 2000, month |-> 2, day |-> 29]]}

\* days the clock is moved by, from 1 January 1970: to 23 February 1970,
\* 25 and 26 December 1970, 23 February 1972
DaySteps == {53, 358, 359, 783}

Travel ==
    \E d \in DaySteps :
        /\ ticks < MaxTicks
        /\ ticks' = ticks + 1
        /\ now' = now + d * SecondsPerDay
        /\ cache' = redis_purge(cache, now + d * SecondsPerDay)
        /\ UNCHANGED <<users, issued, last, contacts, reqs, seen>>

CreateBirthday ==
    \E token \in Bearers, body \in BirthdayBodies, id \in FreeIds :
        CreateContactWith(token, body, id)

NextBirthdays ==
    \/ RegisterOwner
    \/ ConfirmOwner
    \/ LoginOwner
    \/ CreateBirthday
    \/ ReadBirthdays
    \/ Travel

SpecBirthdays == Init /\ [][NextBirthdays]_vars

----------------------------------------------------------------------------
(* Properties *)

StoredRefreshToken(username) == get_user_by_username(users, username).refresh_token

NoTokens(resp) == resp.access_token = NullToken /\ resp.refresh_token = NullToken

\* password is the plain text the stored hash of user was made from
IsPasswordOf(password, user) == user.hashed_password.plain = password

\* C1, as stated: once a later successful login of a user has overwritten the
\* stored refresh token, a refresh call presenting a refresh token issued to
\* that user before fails with 401.
C1_EarlierRefreshFailsAfterLogin ==
    [][\A username \in Usernames, password \in Passwords :
         (LoginWith(username, password) /\ last'.status = 200)
         => \A T \in issued :
              (T.token_type = "refresh" /\ T.sub = username)
              => new_token(users', T, now').status = 401]_vars

\* C1, amended: a refresh token that was issued to a user and is no longer the
\* stored one (a later login stored a different token) is refused with 401
\* "Could not validate credentials" and no access token is issued, in every
\* state and whether or not it has expired.
C1_SupersededRefreshFails ==
    \A T \in issued :
        (T.token_type = "refresh" /\ StoredRefreshToken(T.sub) # T)
        => LET r == new_token(users, T, now) IN
           /\ r.status = 401
           /\ r.detail = "Could not validate credentials"
           /\ NoTokens(r)
           /\ (last.op = "new_token" /\ last.token = T /\ last.at = now
               => last.status = 401 /\ NoTokens(last))

\* a refresh with a superseded, still unexpired refresh token was refused
C1_Witness ==
    /\ last.op = "new_token"
    /\ last.token \in issued
    /\ last.token.token_type = "refresh"
    /\ last.at < last.token.exp
    /\ StoredRefreshToken(last.token.sub) # last.token
    /\ StoredRefreshToken(last.token.sub) # NullToken
    /\ last.status = 401

\* C2: a login succeeds exactly for an existing, confirmed user whose password
\* verifies; it then returns an access and a refresh token and the stored
\* refresh token of the user is the returned one.  In every state the stored
\* token of a user is a refresh token issued to that user, and refresh accepts
\* no token but the stored one of the token's subject.
C2_SingleAcceptedRefreshToken ==
    /\ last.op = "login"
       => LET user == get_user_by_username(users, last.username) IN
          /\ last.status = 200
             <=> /\ user # NoUser
                 /\ IsPasswordOf(last.password, user)
                 /\ user.confirmed
          /\ last.status = 200
             => /\ last.access_token = create_access_token(last.username, last.at)
                /\ last.refresh_token = create_refresh_token(last.username, last.at)
                /\ user.refresh_token = last.refresh_token
    /\ \A i \in DOMAIN users :
          users[i].refresh_token # NullToken
          => /\ users[i].refresh_token \in issued
             /\ users[i].refresh_token.sub = users[i].username
             /\ users[i].refresh_token.token_type = "refresh"
    /\ \A T \in Presentable :
          new_token(users, T, now).status = 200 => T = StoredRefreshToken(T.sub)

\* a second login of a user has replaced the token of the first
C2_Witness ==
    /\ last.op = "login"
    /\ last.status = 200
    /\ \E T \in issued :
          /\ T.token_type = "refresh"
          /\ T.sub = last.username
          /\ T # last.refresh_token
    /\ StoredRefreshToken(last.username) = last.refresh_token

\* C3: a refresh presenting the stored refresh token of its subject before the
\* token's expiry answers 200 with an access token issued now for that user and
\* with the presented refresh token, and changes no field of any user.
C3_RefreshKeepsStoredToken ==
    [][\A T \in Presentable :
         (/\ last'.op = "new_token"
          /\ NewTokenWith(T)
          /\ T.sig = "ok"
          /\ now < T.exp
          /\ T = StoredRefreshToken(T.sub))
         => /\ last'.status = 200
            /\ last'.access_token = create_access_token(T.sub, now)
            /\ last'.refresh_token = T
            /\ users' = users
            /\ new_token(users', T, now').status = 200]_vars

\* a refresh later than the login answered with a newer access token
C3_Witness ==
    /\ last.op = "new_token"
    /\ last.status = 200
    /\ last.refresh_token = last.token
    /\ last.access_token.iat > last.token.iat
    /\ StoredRefreshToken(last.token.sub) = last.token

\* C4: a login with the right password of an unconfirmed user answers 401
\* "Email is not confirmed" without tokens and changes no user; the same login
\* of a confirmed user answers 200 with both tokens.
C4_UnconfirmedLoginRefused ==
    [][\A username \in Usernames, password \in Passwords :
         LET user == get_user_by_username(users, username) IN
         (/\ last'.op = "login"
          /\ LoginWith(username, password)
          /\ user # NoUser
          /\ IsPasswordOf(password, user))
         => IF user.confirmed
            THEN /\ last'.status = 200
                 /\ last'.access_token # NullToken
                 /\ last'.refresh_token # NullToken
            ELSE /\ last'.status = 401
                 /\ last'.detail = "Email is not confirmed"
                 /\ NoTokens(last')
                 /\ users' = users
                 /\ issued' = issued]_vars

C4_Witness ==
    /\ last.op = "login"
    /\ last.status = 401
    /\ last.detail = "Email is not confirmed"
    /\ get_user_by_username(users, last.username) # NoUser
    /\ IsPasswordOf(last.password, get_user_by_username(users, last.username))

\* C5: a login with a username of no user, and a login with a password that
\* does not verify, both answer 401 "Invalid username or password" without
\* tokens and change no user.
C5_BadLoginUniform ==
    [][\A username \in Usernames \cup {"ghost"}, password \in Passwords :
         LET user == get_user_by_username(users, username) IN
         (/\ last'.op = "login"
          /\ LoginWith(username, password)
          /\ (user = NoUser \/ ~IsPasswordOf(password, user)))
         => /\ last'.status = 401
            /\ last'.detail = "Invalid username or password"
            /\ NoTokens(last')
            /\ last' = [Response("login", 401, "Invalid username or password")
                           EXCEPT !.username = username, !.password = password,
                                  !.at = now]
            /\ users' = users
            /\ issued' = issued]_vars

\* a wrong password for a user who holds a refresh token
C5_Witness ==
    /\ last.op = "login"
    /\ last.status = 401
    /\ last.detail = "Invalid username or password"
    /\ get_user_by_username(users, last.username) # NoUser
    /\ StoredRefreshToken(last.username) # NullToken

\* C6: with a token that decodes, for a subject without cache entry whose
\* user exists, get_current_user makes one User Store lookup and one cache
\* write, leaves the entry with the fetched identity and the fixed TTL, and
\* returns the fetched identity; for a subject with an entry it returns the
\* identity of the entry with no lookup and no cache write.
C6_CacheFillThenHit ==
    [][\A T \in Presentable :
         (/\ last'.op = "me"
          /\ MeWith(T)
          /\ T.sig = "ok"
          /\ now < T.exp)
         => LET entry == redis_get(cache, T.sub)
                user == get_user_by_username(users, T.sub)
            IN  IF entry.present
                THEN /\ last'.status = 200
                     /\ last'.user = entry.value.state
                     /\ last'.user.username = T.sub
                     /\ last'.lookups = 0
                     /\ last'.puts = 0
                     /\ cache' = cache
                ELSE user # NoUser
                     => /\ last'.status = 200
                        /\ last'.user = user
                        /\ last'.lookups = 1
                        /\ last'.puts = 1
                        /\ cache'[T.sub].present
                        /\ cache'[T.sub].value.state = user
                        /\ cache'[T.sub].expire_at = now + CACHE_TTL
                        /\ \A k \in Usernames \ {T.sub} : cache'[k] = cache[k]]_vars

\* a cache hit returned the identity of the entry, which the store has since
\* replaced
C6_Witness ==
    /\ last.op = "me"
    /\ last.status = 200
    /\ last.lookups = 0
    /\ last.puts = 0
    /\ last.at = now
    /\ cache[last.token.sub].present
    /\ last.user = cache[last.token.sub].value.state
    /\ last.user # get_user_by_username(users, last.token.sub)

\* C7: get_current_user answers 401 "Could not validate credentials" for a
\* token with a bad signature, a string that is no token and a token past its
\* expiry, and when the subject has no cache entry and no user; the cache is
\* left as it was.
C7_AuthenticateFailures ==
    [][\A T \in Presentable :
         (/\ last'.op = "me"
          /\ MeWith(T)
          /\ \/ T.sig # "ok"
             \/ T.exp < now
             \/ /\ ~redis_get(cache, T.sub).present
                /\ get_user_by_username(users, T.sub) = NoUser)
         => /\ last'.status = 401
            /\ last'.detail = "Could not validate credentials"
            /\ last'.user = NoUser
            /\ last'.puts = 0
            /\ cache' = cache]_vars

\* an expired access token was refused although its subject has a cache entry
C7_Witness ==
    /\ last.op = "me"
    /\ last.status = 401
    /\ last.token \in issued
    /\ last.token.exp < last.at
    /\ last.at = now
    /\ cache[last.token.sub].present

\* C8: a refresh presenting a validly signed, unexpired refresh token whose
\* subject is the username of no user answers 401.
C8_UnknownSubjectRefreshUnauthenticated ==
    (/\ last.op = "new_token"
     /\ last.token.sig = "ok"
     /\ last.at < last.token.exp
     /\ last.token.token_type = "refresh"
     /\ get_user_by_username(users, last.token.sub) = NoUser)
    => last.status = 401

\* C9: a refresh presenting a validly signed, unexpired token whose token_type
\* is not "refresh" (an access token, a verification token that has none), or
\* a string that is no token, answers 401 "Could not validate credentials"
\* without a User Store lookup and without tokens.
C9_WrongKindRefreshRefused ==
    (/\ last.op = "new_token"
     /\ \/ /\ last.token.sig = "ok"
           /\ last.at < last.token.exp
           /\ last.token.token_type # "refresh"
        \/ last.token = Garbage)
    => /\ last.status = 401
       /\ last.detail = "Could not validate credentials"
       /\ last.lookups = 0
       /\ NoTokens(last)

\* the unexpired access token of a user who holds a refresh token was refused
C9_Witness ==
    /\ last.op = "new_token"
    /\ last.status = 401
    /\ last.token \in issued
    /\ last.token.token_type = "access"
    /\ last.at < last.token.exp
    /\ StoredRefreshToken(last.token.sub) # NullToken

\* C10: the admin gate lets an identity through unchanged iff its role is
\* admin, else answers 403, and adds no store or cache access to those of the
\* identity resolution; the avatar update writes the avatar of the identity's
\* user, and nothing else, only for an admin identity.
C10_AdminGate ==
    [][\A T \in Presentable :
         (/\ last'.op = "update_avatar"
          /\ UpdateAvatarWith(T))
         => LET current == get_current_user("update_avatar", T, users, cache, now)
                identity == current.resp.user
            IN  /\ cache' = current.cache
                /\ last'.lookups = current.resp.lookups
                /\ last'.puts = current.resp.puts
                /\ current.resp.status # 200
                   => /\ last'.status = 401
                      /\ users' = users
                /\ (current.resp.status = 200 /\ identity.role = "admin")
                   => /\ last'.status = 200
                      /\ get_current_admin_user("update_avatar", current) = current
                      /\ DOMAIN users' = DOMAIN users
                      /\ \A i \in DOMAIN users :
                            users'[i] =
                               IF users[i].email = identity.email
                               THEN [users[i] EXCEPT !.avatar = "cloudinary"]
                               ELSE users[i]
                /\ (current.resp.status = 200 /\ identity.role # "admin")
                   => /\ last'.status = 403
                      /\ last'.detail = "User does not have enough permissions"
                      /\ last'.user = NoUser
                      /\ users' = users]_vars

\* a user who is no admin was refused, and an admin has changed an avatar
C10_Witness ==
    /\ last.op = "update_avatar"
    /\ last.status = 403
    /\ get_user_by_username(users, last.token.sub).role = "user"
    /\ get_user_by_username(users, last.token.sub).avatar = "gravatar"
    /\ \E i \in DOMAIN users :
          users[i].role = "admin" /\ users[i].avatar = "cloudinary"

\* the status and the body text of an answer
Visible(resp) == <<resp.status, resp.detail>>

\* C11, as stated: forget_password and request_email answer with the same
\* status and message for an address of a registered user, confirmed or not,
\* as for an address of no user.
C11_ResponsesIndependentOfRegistration ==
    \A email \in Addresses, generated_password \in generate_temp_password,
       salt \in Salts :
        /\ Visible(forget_password(users, email, generated_password, salt).resp)
           = Visible(forget_password(users, "nobody@x", generated_password, salt).resp)
        /\ Visible(request_email(users, email)) = Visible(request_email(users, "nobody@x"))

\* C11, amended: forget_password answers an address of a registered confirmed
\* user exactly as an address of no user (200 and the same message), and
\* request_email answers an address of a registered unconfirmed user exactly
\* as an address of no user; forget_password answers 401 "Email is not
\* confirmed" for a registered unconfirmed address and request_email answers
\* 400 "Email is already confirmed" for a registered confirmed one.
C11_ResponsesOfResetAndVerificationRequest ==
    [][\A email \in Addresses :
         LET user == get_user_by_email(users, email) IN
         /\ (/\ last'.op = "forget_password"
             /\ \E generated_password \in generate_temp_password, salt \in Salts :
                    ForgetPasswordWith(email, generated_password, salt))
            => IF user # NoUser /\ ~user.confirmed
               THEN Visible(last') = <<401, "Email is not confirmed">>
               ELSE Visible(last') =
                      Visible(forget_password(users, "nobody@x", "t1", 1).resp)
         /\ (last'.op = "request_email" /\ RequestEmailWith(email))
            => IF user # NoUser /\ user.confirmed
               THEN Visible(last') = <<400, "Email is already confirmed">>
               ELSE /\ Visible(last') = Visible(request_email(users, "nobody@x"))
                    /\ last'.status = 200]_vars

\* a verification mail was requested for the address of a registered,
\* unconfirmed user and the answer is the one an unregistered address gets
C11_Witness ==
    /\ last.op = "request_email"
    /\ get_user_by_email(users, last.username) # NoUser
    /\ last.token = create_email_token(last.username, last.at)
    /\ Visible(last) = Visible(request_email(users, "nobody@x"))

\* C12, as stated: when the cache entry of the subject cannot be deserialized,
\* the identity lookup treats it as absent: it answers with the user read from
\* the store, overwrites the entry with that user and does not fail.
C12_CorruptEntryIsCacheMiss ==
    [][\A T \in Presentable :
         (/\ last'.op = "me"
          /\ MeWith(T)
          /\ T.sig = "ok" /\ now < T.exp
          /\ get_user_by_username(users, T.sub) # NoUser
          /\ cache[T.sub].present
          /\ cache[T.sub].value = NotJson)
         => /\ last'.status = 200
            /\ last'.user = get_user_by_username(users, T.sub)
            /\ cache'[T.sub].value = serialize_user(last'.user)]_vars

\* C13: in every state no two users share an email or a username.  A
\* registration whose email is in use answers 409 "User with this email
\* already exists"; one whose email is new and whose username is in use
\* answers 409 "User with this username already exists"; both leave the user
\* table as it was.  Any other registration appends one unconfirmed user.
C13_RegistrationKeepsUsersUnique ==
    [][/\ \A i, j \in DOMAIN users' :
            (users'[i].email = users'[j].email
             \/ users'[i].username = users'[j].username) => i = j
       /\ \A body \in RegisterForms, salt \in Salts :
            (last'.op = "register" /\ RegisterWith(body, salt))
            => LET email_used == \E i \in DOMAIN users : users[i].email = body.email
                   username_used ==
                       \E i \in DOMAIN users : users[i].username = body.username
               IN  IF email_used
                   THEN /\ Visible(last') = <<409, "User with this email already exists">>
                        /\ users' = users
                   ELSE IF username_used
                   THEN /\ Visible(last') = <<409, "User with this username already exists">>
                        /\ users' = users
                   ELSE /\ last'.status = 201
                        /\ Len(users') = Len(users) + 1
                        /\ SubSeq(users', 1, Len(users)) = users
                        /\ users'[Len(users')].email = body.email
                        /\ users'[Len(users')].username = body.username
                        /\ ~users'[Len(users')].confirmed]_vars

\* a registration with a new email and a taken username was refused
C13_Witness ==
    /\ last.op = "register"
    /\ Visible(last) = <<409, "User with this username already exists">>
    /\ Len(users) = 1
    /\ users[1].username = last.username

\* C14: confirm_email with a well-signed, unexpired token whose subject is the
\* email of an existing unconfirmed user answers 200 and sets the confirmed
\* flag of that user, changing no other field and no other user; for an
\* already confirmed user it answers 400 "Email is already confirmed"; for an
\* email of no user 400 "Verification error"; for a token that is not well
\* signed or has expired 422.  Every failure leaves all users as they were.
C14_ConfirmEmailOutcomes ==
    [][\A T \in Presentable :
         (last'.op = "confirm_email" /\ ConfirmEmailWith(T))
         => LET user == get_user_by_email(users, T.sub) IN
            /\ (T.sig # "ok" \/ T.exp < now)
               => /\ Visible(last') = <<422, "Invalid token for email verification">>
                  /\ users' = users
            /\ (T.sig = "ok" /\ now < T.exp /\ user = NoUser)
               => /\ Visible(last') = <<400, "Verification error">>
                  /\ users' = users
            /\ (T.sig = "ok" /\ now < T.exp /\ user # NoUser /\ user.confirmed)
               => /\ Visible(last') = <<400, "Email is already confirmed">>
                  /\ users' = users
            /\ (T.sig = "ok" /\ now < T.exp /\ user # NoUser /\ ~user.confirmed)
               => /\ last'.status = 200
                  /\ users' = [users EXCEPT ![user.id].confirmed = TRUE]
            /\ last'.status # 200 => users' = users]_vars

\* the second of two registered users has confirmed with the mailed token; the
\* first is still unconfirmed
C14_Witness ==
    /\ last.op = "confirm_email"
    /\ last.status = 200
    /\ last.token \in MailedTokens
    /\ Len(users) = 2
    /\ users[2].email = last.token.sub
    /\ users[2].confirmed
    /\ ~users[1].confirmed

\* a login of username with password is answered with tokens in the user
\* table us
LoginSucceeds(us, username, password) ==
    login_user(us, username, password, now).resp.status = 200

\* C15, as stated: forget_password for a confirmed user replaces the stored
\* hash with the hash of the generated temporary password, after which a login
\* succeeds with the temporary password and fails with the previous one; for
\* an unconfirmed user it answers 401 "Email is not confirmed", for an address
\* of no user it answers success, and both leave every stored hash unchanged.
C15_ResetReplacesPassword ==
    [][\A email \in Addresses, generated_password \in generate_temp_password,
          salt \in Salts :
         (/\ last'.op = "forget_password"
          /\ ForgetPasswordWith(email, generated_password, salt))
         => LET user == get_user_by_email(users, email) IN
            /\ (user # NoUser /\ user.confirmed)
               => /\ last'.status = 200
                  /\ get_user_by_email(users', email).hashed_password
                     = get_password_hash(generated_password, salt)
                  /\ LoginSucceeds(users', user.username, generated_password)
                  /\ ~LoginSucceeds(users', user.username, user.hashed_password.plain)
            /\ (user # NoUser /\ ~user.confirmed)
               => /\ Visible(last') = <<401, "Email is not confirmed">>
                  /\ users' = users
            /\ user = NoUser
               => /\ last'.status = 200
                  /\ users' = users]_vars

\* C15, amended: as C15, except that the login with the previous password
\* fails exactly when the generated temporary password differs from the
\* previous password; every other user keeps the stored hash.
C15_ResetReplacesPasswordUnlessSame ==
    [][\A email \in Addresses, generated_password \in generate_temp_password,
          salt \in Salts :
         (/\ last'.op = "forget_password"
          /\ ForgetPasswordWith(email, generated_password, salt))
         => LET user == get_user_by_email(users, email) IN
            /\ (user # NoUser /\ user.confirmed)
               => /\ last'.status = 200
                  /\ users' = [users EXCEPT ![user.id].hashed_password =
                                   get_password_hash(generated_password, salt)]
                  /\ LoginSucceeds(users', user.username, generated_password)
                  /\ LoginSucceeds(users', user.username, user.hashed_password.plain)
                     <=> user.hashed_password.plain = generated_password
            /\ (user # NoUser /\ ~user.confirmed)
               => /\ Visible(last') = <<401, "Email is not confirmed">>
                  /\ users' = users
            /\ user = NoUser
               => /\ last'.status = 200
                  /\ users' = users]_vars

\* the password of a confirmed user who registered with "p1" was reset: the
\* stored hash is the hash of the mailed password
C15_Witness ==
    /\ last.op = "forget_password"
    /\ last.status = 200
    /\ last.password \in generate_temp_password
    /\ LET user == get_user_by_email(users, last.username) IN
       /\ user.confirmed
       /\ IsPasswordOf(last.password, user)
       /\ LoginSucceeds(users, user.username, last.password)
       /\ ~LoginSucceeds(users, user.username, "p1")

\* the user a bearer token names
Caller(token) == get_user_by_username(users, token.sub)

Owns(user, contact_id) ==
    \E i \in DOMAIN contacts :
        contacts[i].id = contact_id /\ contacts[i].user_id = user.id

Rows(cs) == {cs[i] : i \in DOMAIN cs}

\* C16: for an authenticated caller, get, update and delete of a contact id
\* answer with a contact of that id owned by the caller when the caller owns
\* one, and otherwise answer 404 "Contact not found" and change nothing; none
\* of them changes a contact of another user; the list operations return only
\* contacts of the caller.
C16_ContactsIsolatedByOwner ==
    [][\A T \in Bearers :
         /\ \A contact_id \in ContactIds :
              (/\ last'.op \in {"read_contact", "update_contact", "remove_contact"}
               /\ last'.status # 401
               /\ last'.token = T /\ last'.contact_id = contact_id
               /\ \/ ReadContactWith(T, contact_id)
                  \/ RemoveContactWith(T, contact_id)
                  \/ \E body \in ContactUpdates : UpdateContactWith(T, contact_id, body))
              => /\ IF Owns(Caller(T), contact_id)
                    THEN /\ last'.status = 200
                         /\ last'.contact.id = contact_id
                         /\ last'.contact.user_id = Caller(T).id
                    ELSE /\ Visible(last') = <<404, "Contact not found">>
                         /\ contacts' = contacts
                 /\ \A c \in Rows(contacts) :
                      c.user_id # Caller(T).id => c \in Rows(contacts')
                 /\ \A c \in Rows(contacts') :
                      c.user_id # Caller(T).id => c \in Rows(contacts)
         /\ (/\ last'.op \in {"read_contacts", "read_birthdays"}
             /\ last'.status # 401
             /\ last'.token = T
             /\ \/ ReadBirthdaysWith(T)
                \/ \E q \in ContactQueries :
                      ReadContactsWith(T, q.skip, q.limit, q.first_name,
                                       q.last_name, q.email))
            => /\ last'.status = 200
               /\ \A i \in DOMAIN last'.contacts :
                    /\ last'.contacts[i].user_id = Caller(T).id
                    /\ last'.contacts[i] \in Rows(contacts)]_vars

\* a caller named the id of a contact of another user and got 404
C16_Witness ==
    /\ last.op \in {"read_contact", "update_contact", "remove_contact"}
    /\ Visible(last) = <<404, "Contact not found">>
    /\ Caller(last.token) # NoUser
    /\ \E c \in Rows(contacts) :
          c.id = last.contact_id /\ c.user_id # Caller(last.token).id

\* the row of contact_id that user owns
OwnedRow(cs, user, contact_id) ==
    CHOOSE c \in Rows(cs) : c.id = contact_id /\ c.user_id = user.id

Lifetime(token) == token.exp - token.iat

\* the tokens a successful login or refresh has just answered with are of the
\* kinds access and refresh, with lifetimes of 3600 seconds and 7 days
SessionTokensTagged ==
    /\ \A T \in issued :
          \/ T.token_type = "access" /\ Lifetime(T) = 3600
          \/ T.token_type = "refresh" /\ Lifetime(T) = 7 * 24 * 60 * 60
    /\ (last.op = "login" /\ last.status = 200)
       => /\ last.access_token.token_type = "access"
          /\ Lifetime(last.access_token) = 3600
          /\ last.access_token.iat = last.at
          /\ last.refresh_token.token_type = "refresh"
          /\ Lifetime(last.refresh_token) = 7 * 24 * 60 * 60
          /\ last.refresh_token.iat = last.at
    /\ (last.op = "new_token" /\ last.status = 200)
       => /\ last.access_token.token_type = "access"
          /\ Lifetime(last.access_token) = 3600
          /\ last.access_token.iat = last.at

\* the token expires 7 days after the registration whose mail carries it
MailedFor7Days(token) ==
    \E i \in DOMAIN users :
        /\ token.sub = users[i].email
        /\ token.exp = users[i].created_at + 7 * 24 * 60 * 60

Authenticates(token) ==
    LET r == get_current_user("me", token, users, cache, now).resp IN
    r.status = 200 /\ r.user.username = token.sub

Refreshes(token) ==
    LET r == new_token(users, token, now) IN
    r.status = 200 /\ r.user.username = token.sub

DecodesAtConfirm(token) == confirm_email(users, token, now).resp.status # 422

\* the requests just handled agree with accepted(token, time)
LastAgrees(accepted(_, _)) ==
    /\ (last.op = "me" /\ last.token \in issued)
       => (last.status = 200 <=> accepted(last.token, last.at))
    /\ (/\ last.op = "new_token" /\ last.token \in issued
        /\ last.token = StoredRefreshToken(last.token.sub))
       => (last.status = 200 <=> accepted(last.token, last.at))
    /\ (last.op = "confirm_email" /\ last.token \in MailedTokens)
       => (last.status # 422 <=> accepted(last.token, last.at))
    /\ (last.op = "login" /\ last.status = 200)
       => /\ accepted(last.access_token, last.at)
          /\ accepted(last.refresh_token, last.at)

BeforeExpiry(token, t) == t < token.exp

NotPastExpiry(token, t) == t <= token.exp

\* C19, as stated: a token the service made is accepted exactly while
\* now < exp: authenticate, refresh (for the stored refresh token) and
\* confirm_email accept it at every such time, returning its subject, and
\* reject it at every time now >= exp, the second now = exp included.
C19_AcceptedExactlyBeforeExpiry ==
    /\ \A T \in issued : Authenticates(T) <=> BeforeExpiry(T, now)
    /\ \A T \in issued :
          T = StoredRefreshToken(T.sub) => (Refreshes(T) <=> BeforeExpiry(T, now))
    /\ \A T \in MailedTokens : DecodesAtConfirm(T) <=> BeforeExpiry(T, now)
    /\ LastAgrees(BeforeExpiry)

\* C19, amended: a token the service made is accepted exactly while
\* now <= exp, in whole seconds: authenticate, refresh (for the stored refresh
\* token) and confirm_email accept it up to and including the second
\* now = exp, returning its subject, and reject it at every time now > exp.
C19_AcceptedUntilExpirySecond ==
    /\ \A T \in issued : Authenticates(T) <=> NotPastExpiry(T, now)
    /\ \A T \in issued :
          T = StoredRefreshToken(T.sub) => (Refreshes(T) <=> NotPastExpiry(T, now))
    /\ \A T \in MailedTokens : DecodesAtConfirm(T) <=> NotPastExpiry(T, now)
    /\ LastAgrees(NotPastExpiry)

\* an access token was presented in the second of its expiry and accepted
C19_Witness ==
    /\ last.op = "me"
    /\ last.token \in issued
    /\ last.at = last.token.exp
    /\ last.status = 200
    /\ last.user.username = last.token.sub

\* the identity the lookup resolves a well-signed, unexpired token to: the
\* cached snapshot of the subject when there is one, else the stored user
Identity(token) ==
    IF cache[token.sub].present
    THEN cache[token.sub].value.state
    ELSE get_user_by_username(users, token.sub)

\* C20: for an authenticated caller the password update answers 200 with the
\* resolved identity; it replaces the stored hash of that user with the hash
\* of new_password when old_password is the password of the identity's hash,
\* and changes nothing else; when it is not, no stored hash changes.
C20_PasswordUpdateIffOldVerifies ==
    [][\A T \in Presentable, old_password \in Passwords,
          new_password \in Passwords, salt \in Salts :
         (/\ last'.op = "update_password"
          /\ last'.token = T /\ last'.password = old_password
          /\ T.sig = "ok" /\ now < T.exp
          /\ T.sub \in Usernames
          /\ Identity(T) # NoUser
          /\ UpdatePasswordWith(T, old_password, new_password, salt))
         => /\ last'.status = 200
            /\ last'.user = Identity(T)
            /\ IF IsPasswordOf(old_password, Identity(T))
               THEN users' = [users EXCEPT ![Identity(T).id].hashed_password =
                                 get_password_hash(new_password, salt)]
               ELSE users' = users]_vars

\* a user who registered with "p1" has changed the password to "p2", and a
\* login with "p2" succeeds
C20_Witness ==
    /\ last.op = "update_password"
    /\ last.status = 200
    /\ last.password = "p1"
    /\ IsPasswordOf("p1", last.user)
    /\ IsPasswordOf("p2", get_user_by_username(users, last.user.username))
    /\ LoginSucceeds(users, last.user.username, "p2")

----------------------------------------------------------------------------
(* Concurrent requests *)

\* the refresh token in the row of username
StoredNow(us, username) == get_user_by_username(us, username).refresh_token

\* C21, as stated: a refresh presenting T never answers 200 at a moment at
\* which the stored refresh token of the user is no longer T, whatever the
\* interleaving with a login of that user: no write falls between the
\* comparison and the answer.
C21_NoSuccessAfterSupersedingWrite ==
    [][\A i \in RequestIds :
          RefreshRespond(i) => StoredNow(users, reqs[i].token.sub) = reqs[i].token]_vars

\* C21, amended: a refresh presenting T answers 200 only if T was the stored
\* refresh token of the subject in the row the refresh read; the row may have
\* been rewritten by a login between that read and the answer, and a refresh
\* that reads the row after the login's write compares with the new token.
C21_SuccessOnlyForTokenStoredAtRead ==
    /\ \A i \in RequestIds :
          reqs[i].op = "new_token" /\ reqs[i].pc = "respond"
              => /\ reqs[i].user \in seen
                 /\ reqs[i].user.username = reqs[i].token.sub
                 /\ reqs[i].user.refresh_token = reqs[i].token
    /\ \A i \in RequestIds :
          reqs[i].op = "new_token" /\ reqs[i].pc = "compare" /\ reqs[i].user # NoUser
              => reqs[i].user \in seen
    /\ last.op = "new_token" /\ last.status = 200
          => /\ last.user \in seen
             /\ last.user.username = last.token.sub
             /\ last.user.refresh_token = last.token

\* a refresh has compared and is about to answer 200, and a login has
\* replaced the stored token in between
C21_Witness ==
    \E i \in RequestIds :
        /\ reqs[i].op = "new_token" /\ reqs[i].pc = "respond"
        /\ StoredNow(users, reqs[i].token.sub) # reqs[i].token
        /\ StoredNow(users, reqs[i].token.sub) # NullToken

\* C22, as stated: in every reachable state, also between the commands of a
\* cache fill and after a request has stopped between them, every entry of
\* the session cache has an expiry time.
C22_EveryEntryHasExpiry ==
    \A username \in DOMAIN cache :
        cache[username].present => cache[username].expire_at # NoExpiry

\* C23: whatever the interleaving of identity lookups with the same subject,
\* the cache entry of a username is absent or is the serialized row of that
\* username as one lookup read it from the store; every lookup that answers
\* 200 returns a row the store held for the subject of its token.
C23_EntryIsOneSnapshotOfTheSubject ==
    /\ \A username \in DOMAIN cache :
          cache[username].present
              => \E user \in seen :
                    /\ user.username = username
                    /\ cache[username].value = serialize_user(user)
    /\ \A i \in RequestIds :
          reqs[i].op = "me" /\ reqs[i].pc \in {"set", "expire"}
              => reqs[i].user \in seen /\ reqs[i].user.username = reqs[i].token.sub
    /\ last.op = "me" /\ last.status = 200
          => last.user \in seen /\ last.user.username = last.token.sub

\* two lookups of one subject are filling the cache with different rows, and
\* the entry is the row of the one that has written
C23_Witness ==
    \E i, j \in RequestIds :
        /\ reqs[i].op = "me" /\ reqs[i].pc = "expire"
        /\ reqs[j].op = "me" /\ reqs[j].pc = "set"
        /\ reqs[i].token.sub = reqs[j].token.sub
        /\ reqs[i].user # reqs[j].user
        /\ cache[reqs[i].token.sub].value = serialize_user(reqs[i].user)

----------------------------------------------------------------------------
(* Password changes and the cached identity *)

\* C24, as stated: once the stored hash of a user has been replaced, a
\* password update that gives the replaced password as old_password leaves
\* the stored hash as it is, also when the identity of the caller comes from
\* the cache entry written before the replacement.
C24_ReplacedPasswordChangesNothing ==
    [][\A T \in Presentable, old_password \in Passwords,
          new_password \in Passwords, salt \in Salts :
         (/\ last'.op = "update_password"
          /\ last'.token = T /\ last'.password = old_password
          /\ jwt_decode_ok(T, now)
          /\ T.sub \in Usernames
          /\ Caller(T) # NoUser
          /\ ~IsPasswordOf(old_password, Caller(T))
          /\ cache[T.sub].present
          /\ IsPasswordOf(old_password, cache[T.sub].value.state)
          /\ UpdatePasswordWith(T, old_password, new_password, salt))
         => users' = users]_vars

----------------------------------------------------------------------------
(* The kind and the subject of a bearer token *)

\* some row or cache entry is named like the subject of token
Known(token) ==
    \/ get_user_by_username(users, token.sub) # NoUser
    \/ redis_get(cache, token.sub).present

\* C25, as stated: the identity lookup answers 200 only for a token of kind
\* access; a signed, unexpired refresh or verification token as bearer token
\* gets 401.
C25_OnlyAccessTokensAuthenticate ==
    last.op = "me" /\ last.status = 200 => last.token.token_type = "access"

\* C25, amended: the identity lookup does not look at the kind of the token.
\* A signed token that is not past its expiry gets 200 and the identity named
\* by its sub when a row or cache entry has that name, and 401 otherwise: the
\* refresh token of a user is accepted like an access token, and a
\* verification token, whose sub is an address, is refused as long as no
\* username is that address.
C25_AuthenticateIgnoresKind ==
    [][\A T \in Presentable :
         (last'.op = "me" /\ last'.token = T /\ MeWith(T))
         => /\ last'.status = 200 <=> (T.sig = "ok" /\ ~(T.exp < now) /\ Known(T))
            /\ last'.status # 200 => last'.status = 401
            /\ last'.status = 200 => last'.user.username = T.sub]_vars

\* the refresh token of a user was presented as bearer token and accepted
C25_Witness ==
    /\ last.op = "me"
    /\ last.status = 200
    /\ last.token.token_type = "refresh"
    /\ last.token = StoredNow(users, last.user.username)

\* C26, as stated: a signed, unexpired token without sub gets 401 from the
\* identity lookup and from the refresh, like a token that fails to decode.
C26_TokenWithoutSubIsUnauthenticated ==
    last.op \in {"me", "new_token"} /\ last.token \in UnnamedTokens
        => last.status = 401

----------------------------------------------------------------------------
(* Rows of the users table over their life *)

\* C27: a row with a stored refresh token is confirmed; a new row is
\* unconfirmed and has no refresh token; no row is removed and a confirmed
\* row stays confirmed; so no request stores a refresh token in an
\* unconfirmed row.
C27_RefreshTokenOnlyIfConfirmed ==
    [][/\ Len(users') >= Len(users)
       /\ \A i \in DOMAIN users' :
             /\ users'[i].refresh_token # NullToken => users'[i].confirmed
             /\ i \notin DOMAIN users
                   => ~users'[i].confirmed /\ users'[i].refresh_token = NullToken
             /\ i \in DOMAIN users
                   => /\ users[i].confirmed => users'[i].confirmed
                      /\ ~users'[i].confirmed
                            => users'[i].refresh_token = users[i].refresh_token]_vars

\* one user is confirmed and holds a refresh token, the other is unconfirmed,
\* holds none and has just been refused a login with the right password
C27_Witness ==
    /\ Len(users) = 2
    /\ \E i \in DOMAIN users :
          users[i].confirmed /\ users[i].refresh_token # NullToken
    /\ \E i \in DOMAIN users :
          /\ ~users[i].confirmed /\ users[i].refresh_token = NullToken
          /\ last.op = "login" /\ last.status = 401
          /\ last.username = users[i].username
          /\ IsPasswordOf(last.password, users[i])

----------------------------------------------------------------------------
(* Contacts: what an update writes, and the birthdays of the coming week *)

\* C28: an update of a contact of the caller gives every field the body sets
\* the value of the body, and leaves the other fields of the row, its id and
\* its owner, every other row, the order of the rows and the users table as
\* they were; the answer is the row as written.
C28_UpdateWritesOnlyFieldsOfBody ==
    [][\A T \in Bearers, contact_id \in ContactIds, body \in FieldUpdates :
         (/\ last'.op = "update_contact" /\ last'.status = 200
          /\ last'.token = T /\ last'.contact_id = contact_id
          /\ UpdateContactWith(T, contact_id, body))
         => /\ DOMAIN contacts' = DOMAIN contacts
            /\ \A i \in DOMAIN contacts :
                  IF contacts[i].id = contact_id
                  THEN /\ \A f \in DOMAIN contacts[i] :
                            contacts'[i][f] =
                                IF f \in DOMAIN body THEN body[f] ELSE contacts[i][f]
                       /\ contacts'[i].id = contact_id
                       /\ contacts'[i].user_id = contacts[i].user_id
                       /\ last'.contact = contacts'[i]
                  ELSE contacts'[i] = contacts[i]
            /\ users' = users]_vars

\* a contact has got the phone and the address of an update and kept the
\* names it was created with, next to a contact nobody has updated
C28_Witness ==
    /\ last.op = "update_contact" /\ last.status = 200
    /\ Len(contacts) = 2
    /\ last.contact.phone = "2" /\ last.contact.email = "new@x"
    /\ last.contact.first_name \in {"Sam", "Ann"}
    /\ last.contact \in Rows(contacts)
    /\ \E c \in Rows(contacts) :
          /\ c.id # last.contact_id
          /\ \E b \in ContactBodies : \A f \in DOMAIN b : c[f] = b[f]

\* days from 1 January 1970 to the day month/day of year, counted from the
\* lengths of the years and months
DaysBefore ==
    <<0, 31, 59, 90, 120, 151, 181, 212, 243, 273, 304, 334>>

Leap(year) == year \in {1972, 1976}

Ordinal(year, month, day) ==
    (year - 1970) * 365 + Cardinality({y \in 1970..(year - 1) : Leap(y)})
    + DaysBefore[month] + (IF Leap(year) /\ month > 2 THEN 1 ELSE 0) + day - 1

\* month/day is a day of year
InYear(year, month, day) == ~(month = 2 /\ day = 29 /\ ~Leap(year))

\* month/day falls on today or on one of the six days after it
InComingWeek(birthday, t) ==
    \E year \in 1970..1973 :
        /\ InYear(year, birthday.month, birthday.day)
        /\ Ordinal(year, birthday.month, birthday.day) - (t \div SecondsPerDay) \in 0..6

\* C29: the birthdays query answers an authenticated caller with exactly the
\* rows of the caller, in table order, whose birthday falls by month and day
\* on today or one of the six days after it, whatever the year of birth, also
\* when these seven days run into the next month or year.
C29_BirthdaysOfTheComingWeek ==
    [][\A T \in Bearers :
         (/\ last'.op = "read_birthdays" /\ last'.status = 200
          /\ last'.token = T
          /\ ReadBirthdaysWith(T))
         => LET mine(c) == c.user_id = last'.user.id /\ InComingWeek(c.birthday, now)
            IN  /\ last'.user.username = T.sub
                /\ last'.contacts = SelectSeq(contacts, mine)]_vars

\* asked on 26 December 1970, the query returned the caller's contact born
\* on 1 January 2000 and left out the other row of the table
C29_Witness ==
    /\ last.op = "read_birthdays" /\ last.status = 200
    /\ last.at = now /\ now \div SecondsPerDay = 359
    /\ Len(contacts) = 2
    /\ Len(last.contacts) = 1
    /\ last.contacts[1].birthday = [year |-> 2000, month |-> 1, day |-> 1]
    /\ last.contacts[1].user_id = last.user.id

----------------------------------------------------------------------------
(* What a password change leaves alone *)

\* rows differ in the hashed password at most
SameButPassword(before, after) ==
    /\ DOMAIN after = DOMAIN before
    /\ \A i \in DOMAIN before :
          after[i] = [before[i] EXCEPT !.hashed_password = after[i].hashed_password]

\* every issued token gets from the refresh what it got before
RefreshAnswersKept ==
    \A T \in issued :
        Visible(new_token(users', T, now)) = Visible(new_token(users, T, now))

PasswordChange ==
    \/ last'.op = "forget_password" /\ ForgetPassword
    \/ last'.op = "update_password" /\ UpdatePassword

\* C30, as stated: a password reset and a password update write the hashed
\* password only: refresh token, confirmed flag and role of every row and the
\* session cache are as before, and the refresh accepts what it accepted.
C30_PasswordChangeWritesHashOnly ==
    [][PasswordChange
         => /\ SameButPassword(users, users')
            /\ cache' = cache
            /\ RefreshAnswersKept]_vars

\* C30, amended: as C30 for the rows and the refresh; a password reset leaves
\* the session cache as it is, and a password update leaves every entry that
\* exists as it is, and when the caller has no entry its identity lookup
\* writes one, holding the caller's row as it was before the update.
C30_PasswordChangeKeepsExistingEntries ==
    [][PasswordChange
         => /\ SameButPassword(users, users')
            /\ RefreshAnswersKept
            /\ last'.op = "forget_password" => cache' = cache
            /\ \A username \in DOMAIN cache :
                  IF cache[username].present
                  THEN cache'[username] = cache[username]
                  ELSE cache'[username].present
                         => /\ last'.token.sub = username
                            /\ cache'[username].value =
                                  serialize_user(get_user_by_username(users, username))]_vars

\* a password update has replaced the stored hash of a user with a stored
\* refresh token, the refresh still accepts that token, and the update has
\* written the cache entry of the user with the hash it replaced
C30_Witness ==
    /\ last.op = "update_password" /\ last.status = 200
    /\ last.puts = 1
    /\ LET user == get_user_by_username(users, last.user.username) IN
       /\ ~IsPasswordOf(last.password, user)
       /\ IsPasswordOf(last.password, cache[user.username].value.state)
       /\ user.refresh_token \in issued
       /\ new_token(users, user.refresh_token, now).status = 200

====
